---- MODULE Spec2Model ----
(***************************************************************************)
(* State-machine model of src/main.py (run_trading_bot and the two         *)
(* get_auth_context_* helpers) together with the part of the exchange the  *)
(* bot talks to: the resting orders of the account and its position.       *)
(*                                                                         *)
(* Prices are fixed-point integers in units of 1e-4.  A formatted price    *)
(* string such as "29976.00" is the record [val |-> 2997600, dec |-> 2]:   *)
(* val counts units of 10^-dec.  Quantities are whole lots.                *)
(***************************************************************************)
EXTENDS Integers, Sequences, FiniteSets, TLC

VARIABLES
    pc,                 \* position of run_trading_bot
    context,            \* main.py:214-218
    signing,            \* what the decoders of lines 160-179 did, until line 227
    current_symbol,     \* main.py:236-239
    current_order_size, \* main.py:245-248
    mark_price,         \* main.py:258
    bid_price_str,      \* main.py:278/287
    ask_price_str,      \* main.py:279/288
    ids_to_cancel,      \* main.py:301/411; dropped when its pass is over
    oid_idx,            \* position of the "for oid in ids_to_cancel" loops
    positions,          \* main.py:323
    pos_idx,            \* position of the "for pos in positions" loop
    book,               \* exchange: resting orders of the account
    position,           \* exchange: signed position of the account in the symbol
    calls,              \* gateway calls issued since the tick (or sweep) began
    fails,              \* calls and parses that raised since the tick (or sweep) began
    lastOrder,          \* arguments of the latest place_order call
    pass,               \* record of the current cancel-all pass
    sweeps,             \* number of shutdown sweeps started (main.py:405-408)
    retry,              \* the previous tick ended in the handler of line 392
    interrupted,        \* a KeyboardInterrupt has been delivered
    exit                \* how the process ended

vars == <<pc, context, signing, current_symbol, current_order_size, mark_price,
          bid_price_str, ask_price_str, ids_to_cancel, oid_idx, positions,
          pos_idx, book, position, calls, fails, lastOrder, pass, sweeps,
          retry, interrupted, exit>>

----------------------------------------------------------------------------
(* Bounds of the model *)

MaxOrders == 3      \* order ids the exchange hands out: 1..MaxOrders
MaxQty == 2         \* the position ranges over -MaxQty..MaxQty lots

(* Program constants *)

SPREAD_BPS == 8
BpsBase == 10000
SmallPriceLimit == 100
SmallDecimals == 4
LargeDecimals == 2

ORDER_SIZE == "0.0015"

----------------------------------------------------------------------------
(* Helpers *)

Abs(x) == IF x < 0 THEN -x ELSE x

Min(a, b) == IF a < b THEN a ELSE b

RECURSIVE Pow10(_)
Pow10(n) == IF n = 0 THEN 1 ELSE 10 * Pow10(n - 1)

(* Units of the fixed-point grid the mark price lives on: 1e-4 *)
PriceScale == Pow10(SmallDecimals)

RECURSIVE SortedSeq(_)
SortedSeq(S) ==
    IF S = {} THEN <<>>
    ELSE LET m == CHOOSE x \in S : \A y \in S : x <= y
         IN  <<m>> \o SortedSeq(S \ {m})

SeqToSet(s) == {s[i] : i \in 1..Len(s)}

----------------------------------------------------------------------------
(* Step 2 of the tick: bid/ask around the mark price (main.py:265-288).    *)
(* mark is in units of 1e-4; k is 10000 -/+ SPREAD_BPS, so the exact       *)
(* product mark * k is in units of 1e-8.  The products are split so that   *)
(* no intermediate value leaves 32 bits.                                   *)

(* The exact product mark * k in units of 10^-4: whole part q, and the     *)
(* fraction f / den, 0 <= f < den.                                         *)
Product4(mark, k) ==
    LET d == Pow10(SmallDecimals)
        a == mark \div d
        b == mark % d
    IN  [q |-> a * k + (b * k) \div d, f |-> (b * k) % d, den |-> d,
         e |-> FALSE]

(* The exact product mark * k in units of 10^-2: whole part q, and the     *)
(* fraction (f + e) / den, where e is TRUE when a positive remainder below *)
(* one unit of f was dropped.                                              *)
Product2(mark, k) ==
    LET d  == Pow10(SmallDecimals)
        h  == Pow10(LargeDecimals)
        a  == mark \div (d * h)
        b  == mark % (d * h)
        c  == b \div h
        e  == b % h
        x  == c * k + (e * k) \div h
    IN  [q |-> a * k + x \div d, f |-> x % d, den |-> d,
         e |-> (e * k) % h > 0]

(* The exact value p lies half-way between two neighbours *)
IsTie(p) == 2 * p.f = p.den /\ ~p.e

(* What "%.Nf" makes of the double bid_price or ask_price.  The double is  *)
(* the product of two doubles (lines 265-267), off the exact decimal       *)
(* product p by a few parts in 10^16: formatting rounds it to the          *)
(* neighbour nearest to p, and when p lies exactly half-way the double     *)
(* lies on either side of the half and either neighbour comes out.         *)
Nearest(p) ==
    IF 2 * p.f > p.den \/ (2 * p.f = p.den /\ p.e) THEN {p.q + 1}
    ELSE IF IsTie(p) THEN {p.q, p.q + 1}
    ELSE {p.q}

(* f"{x:.4f}": the values with 4 fractional digits, in 1e-4 *)
Round4(mark, k) == Nearest(Product4(mark, k))

(* f"{x:.2f}": the values with 2 fractional digits, in 1e-2 *)
Round2(mark, k) == Nearest(Product2(mark, k))

(* main.py:276-288: the strings a price of a tick can be formatted to *)
FormatPrice(mark, k) ==
    IF mark < SmallPriceLimit * PriceScale
    THEN {[val |-> v, dec |-> SmallDecimals] : v \in Round4(mark, k)}
    ELSE {[val |-> v, dec |-> LargeDecimals] : v \in Round2(mark, k)}

(* main.py:266 and 278/287 *)
BidPriceStr(mark) == FormatPrice(mark, BpsBase - SPREAD_BPS)

(* main.py:267 and 279/288 *)
AskPriceStr(mark) == FormatPrice(mark, BpsBase + SPREAD_BPS)

NoPrice == [val |-> 0, dec |-> 0]

----------------------------------------------------------------------------
(* Values *)

(* SYMBOL of the environment (main.py:233) and what line 236 tests *)
EnvSymbols == {"BTC", "BTC-USD", "DUSD"}

EndsWithUsd(s) == s \in {"BTC-USD", "ETH-USD", "SOL-USD", "DUSD-USD"}

(* Mark prices the exchange reports for a symbol (main.py:257-258), in     *)
(* 1e-4: 30000 for BTC-USD; 0.95 for a coin worth about a dollar, or 0     *)
(* when the feed has no price: float() accepts "0" as it accepts any       *)
(* number.                                                                 *)
MarkPricesOf(symbol) ==
    IF symbol = "BTC-USD"
    THEN {30000 * PriceScale}
    ELSE {0, 95 * Pow10(LargeDecimals)}

MarkPrices == MarkPricesOf("BTC-USD") \cup MarkPricesOf("DUSD-USD")

OtherSymbol == "SOL-USD"

(* Answers to the order-size prompt (main.py:243): nothing, which takes   *)
(* the default, or a size typed in full                                    *)
SizeInputs == {"", "0.0015"}

OrderIds == 1..MaxOrders

Qtys == (-MaxQty)..MaxQty

(* main.py:133-138 and 191-196: the context dictionary, None is NoContext. *)
(* Its "address" is only ever logged (line 250) and is left out; the       *)
(* signing key inside "auth" is the ephemeral one of line 125 or the       *)
(* decoded one of line 185, which the loop never tells apart.              *)
NoContext == [client |-> "", auth |-> "", token |-> ""]

EstablishedContext == [client |-> "client", auth |-> "auth", token |-> "token"]

(* A decoder of the signing key raised (main.py:164, 171, 178) *)
Raises == -1

(* private_key_bytes = None (main.py:157) *)
NoBytes == [len |-> Raises, src |-> "none"]

(* What the decoders of lines 160-179 did with the key of token mode: the  *)
(* bytes each yields (or Raises), the decoders called, and the resulting   *)
(* private_key_bytes with the encoding it came from.                       *)
NoSigning == [hex |-> Raises, base64 |-> Raises, base58 |-> Raises,
              tried |-> {}, key |-> NoBytes]

(* The arguments of a place_order call.  qty is the size string of a      *)
(* quote; a closing order's size, str(abs(qty)), is the number lots.       *)
(* entry_symbol and entry_qty are not arguments: they record the position  *)
(* entry the loop of line 327 was looking at when it sent the order.       *)
NoOrder == [symbol |-> "", side |-> "", order_type |-> "", qty |-> "",
            lots |-> 0, price |-> NoPrice, time_in_force |-> "",
            reduce_only |-> FALSE, entry_symbol |-> "", entry_qty |-> 0]

(* The cancel-all pass in progress or just over: the ids its open-orders  *)
(* query returned, how the batch cancel went, the ids cancelled one by one *)
(* (tried, and those that succeeded), and the number of cancelled orders   *)
(* its log lines report (lines 307, 314, 416).                             *)
NoPass == [kind |-> "none", queried |-> {}, batch |-> "none", tried |-> {},
           ok |-> {}, logged |-> 0, done |-> FALSE]

NotExited == [code |-> -1, cause |-> "running"]

SetupPcs == {"choice", "auth1", "auth2", "symbol", "size_prompt"}

LoopPcs == {"price", "open_orders", "batch_cancel", "single_cancel",
            "positions", "pos_loop", "place_buy", "place_sell", "sleep",
            "backoff"}

SweepPcs == {"sd_query", "sd_batch", "sd_single"}

CallKinds == {"price", "open_orders", "cancel_batch", "cancel_one",
              "positions", "qty_parse", "flatten", "buy", "sell"}

Init ==
    /\ pc = "choice"
    /\ context = NoContext
    /\ signing = NoSigning
    /\ current_symbol = ""
    /\ current_order_size = ""
    /\ mark_price = 0
    /\ bid_price_str = NoPrice
    /\ ask_price_str = NoPrice
    /\ ids_to_cancel = <<>>
    /\ oid_idx = 0
    /\ positions = <<>>
    /\ pos_idx = 0
    /\ book = {}
    /\ position \in Qtys
    /\ calls = {}
    /\ fails = {}
    /\ lastOrder = NoOrder
    /\ pass = NoPass
    /\ sweeps = 0
    /\ retry = FALSE
    /\ interrupted = FALSE
    /\ exit = NotExited

(* The process ends: return from run_trading_bot (code 0) or an exception *)
(* that nothing catches (code 1).                                          *)
Exit(code, cause) ==
    /\ pc' = "exited"
    /\ exit' = [code |-> code, cause |-> cause]

loopVars == <<mark_price, bid_price_str, ask_price_str, ids_to_cancel,
              oid_idx, positions, pos_idx, book, position, calls, fails,
              lastOrder, pass, sweeps, retry>>

----------------------------------------------------------------------------
(* STARTING: main.py:212-251 *)

(* main.py:212-221: the mode prompt; any answer but "1" or "2" returns *)
ChooseMode ==
    /\ pc = "choice"
    /\ \E choice \in {"1", "2", "3"} :
         IF choice \in {"1", "2"}
         THEN /\ pc' = "auth" \o choice
              /\ exit' = exit
         ELSE Exit(0, "setup")
    /\ context' = context
    /\ UNCHANGED <<signing, current_symbol, current_order_size, interrupted>>
    /\ UNCHANGED loopVars

(* Variant of AfterAuth without the check of line 223 *)
AfterAuthUnchecked(ctx) ==
    /\ pc' = "symbol"
    /\ context' = ctx
    /\ exit' = exit

(* main.py:223-225: "if not context: return", else go on to line 227 *)
AfterAuth(ctx) ==
    IF ctx = NoContext
    THEN /\ Exit(0, "setup")
         /\ context' = NoContext
    ELSE /\ pc' = "symbol"
         /\ context' = ctx
         /\ exit' = exit

(* main.py:115-141 (and get_signer, 28-46, called at line 127) *)
AuthPrivateKey ==
    /\ pc = "auth1"
    /\ \E hasKey \in BOOLEAN, keyValid \in BOOLEAN, loginOk \in BOOLEAN :
         IF ~hasKey THEN AfterAuth(NoContext)
         ELSE IF ~keyValid
              THEN \* Account.from_key raises outside any try
                   /\ Exit(1, "setup")
                   /\ context' = NoContext
         ELSE IF ~loginOk THEN AfterAuth(NoContext)
         ELSE AfterAuth(EstablishedContext)
    /\ UNCHANGED <<signing, current_symbol, current_order_size, interrupted>>
    /\ UNCHANGED loopVars

(* Signing-key decoding, main.py:155-183.  A decoder's outcome is the     *)
(* number of bytes it yields, or Raises.                                   *)
KeyLen == 32

DecodeOutcomes == {Raises, 0, KeyLen \div 2, KeyLen, KeyLen + 1}

(* "not private_key_bytes or len(private_key_bytes) != 32" *)
NotAKey(k) == k.len <= 0 \/ k.len # KeyLen

(* Variant of TryDecode without the test of lines 168 and 175 *)
TryDecodeUnguarded(k, outcome, encoding) ==
    IF outcome # Raises
    THEN [len |-> outcome, src |-> encoding]
    ELSE k

(* main.py:168-172 and 175-179: a later decoder runs only while there is   *)
(* no 32-byte result, and replaces the result unless it raises             *)
TryDecode(k, outcome, encoding) ==
    IF NotAKey(k) /\ outcome # Raises
    THEN [len |-> outcome, src |-> encoding]
    ELSE k

(* main.py:160-165: private_key_bytes after the hex decoder *)
AfterHex(hex) ==
    IF hex = Raises THEN NoBytes ELSE [len |-> hex, src |-> "hex"]

(* private_key_bytes at line 182, given what the three decoders do *)
LoadSigningKey(hex, b64, b58) ==
    LET k1 == AfterHex(hex)
        k2 == TryDecode(k1, b64, "base64")
    IN  TryDecode(k2, b58, "base58")

(* The decoders lines 160-179 call, given what they do *)
Attempted(hex, b64, b58) ==
    LET k1 == AfterHex(hex)
        k2 == TryDecode(k1, b64, "base64")
    IN  {"hex"}
          \cup (IF NotAKey(k1) THEN {"base64"} ELSE {})
          \cup (IF NotAKey(k2) THEN {"base58"} ELSE {})

(* StandXAuth(private_key=...) of line 185: the constructor takes a key of *)
(* exactly 32 bytes.                                                       *)
StandXAuthAccepts(k) == k.len = KeyLen

(* main.py:145-196 *)
AuthApiToken ==
    /\ pc = "auth2"
    /\ \E hasToken \in BOOLEAN, hasKey \in BOOLEAN,
          hex \in DecodeOutcomes, b64 \in DecodeOutcomes, b58 \in DecodeOutcomes :
         IF ~hasToken \/ ~hasKey
         THEN /\ AfterAuth(NoContext)
              /\ signing' = signing
         ELSE LET key == LoadSigningKey(hex, b64, b58) IN
              /\ signing' = [hex |-> hex, base64 |-> b64, base58 |-> b58,
                             tried |-> Attempted(hex, b64, b58), key |-> key]
              /\ IF NotAKey(key) \/ ~StandXAuthAccepts(key)
                 THEN AfterAuth(NoContext)
                 ELSE AfterAuth(EstablishedContext)
    /\ UNCHANGED <<current_symbol, current_order_size, interrupted>>
    /\ UNCHANGED loopVars

(* main.py:236-239 *)
NormalizeSymbol(env_symbol) ==
    IF ~EndsWithUsd(env_symbol) THEN env_symbol \o "-USD" ELSE env_symbol

(* main.py:227-239: unpack the context, read SYMBOL from the environment.  *)
(* How the signing key was decoded is never read again and is dropped.     *)
DetermineSymbol ==
    /\ pc = "symbol"
    /\ \E env_symbol \in EnvSymbols :
         current_symbol' = NormalizeSymbol(env_symbol)
    /\ pc' = "size_prompt"
    /\ signing' = NoSigning
    /\ UNCHANGED <<context, current_order_size, interrupted, exit>>
    /\ UNCHANGED loopVars

(* main.py:242-251: the order-size prompt.  input() raises EOFError when   *)
(* standard input is closed; nothing catches it here, the try block of     *)
(* line 253 has not been entered yet.                                      *)
PromptSize ==
    /\ pc = "size_prompt"
    /\ \/ \E size_input \in SizeInputs :
            /\ current_order_size' =
                 IF size_input = "" THEN ORDER_SIZE ELSE size_input
            /\ pc' = "price"
            /\ exit' = exit
       \/ /\ Exit(1, "error")
          /\ current_order_size' = current_order_size
    /\ UNCHANGED <<signing, context, current_symbol, interrupted>>
    /\ UNCHANGED loopVars

----------------------------------------------------------------------------
(* The exchange *)

BookIds == {o.id : o \in book}

(* cancel_orders that succeeds: the named orders no longer rest *)
BookWithout(ids) == {o \in book : o.id \notin ids}

FreeIds == OrderIds \ BookIds

(* place_order of a limit order that succeeds: the order rests under a    *)
(* fresh id                                                                *)
BookWith(side, price, qty) ==
    LET id == CHOOSE i \in FreeIds : \A j \in FreeIds : i <= j
    IN  book \cup {[id |-> id, side |-> side, price |-> price, qty |-> qty]}

(* A reduce-only immediate-or-cancel market order that is accepted: it     *)
(* fills between nothing and all of its size, never past a flat position.  *)
PositionsAfterClose(side, lots) ==
    IF side = "sell" /\ position > 0
    THEN {position - f : f \in 0..Min(lots, position)}
    ELSE IF side = "buy" /\ position < 0
    THEN {position + f : f \in 0..Min(lots, -position)}
    ELSE {position}

PosEntry(symbol, qty, parses) ==
    [symbol |-> symbol, qty |-> qty, parses |-> parses]

(* What query_positions may return: the entry of the symbol (its qty      *)
(* field readable as a number or not), possibly after the entry of another *)
(* symbol; a flat account may have no entry.                               *)
PositionsResponses ==
    {<<PosEntry(current_symbol, position, TRUE)>>,
     <<PosEntry(current_symbol, position, FALSE)>>,
     <<PosEntry(OtherSymbol, MaxQty, TRUE),
       PosEntry(current_symbol, position, TRUE)>>}
    \cup (IF position = 0
          THEN {<<>>, <<PosEntry(OtherSymbol, MaxQty, TRUE)>>}
          ELSE {})

----------------------------------------------------------------------------
(* RUNNING: one tick, main.py:254-394 *)

(* Variant of AfterPriceError: the failure is swallowed like a step's own *)
AfterPriceErrorSwallowed == "open_orders"

(* main.py:392-394: where an exception of the price fetch lands *)
AfterPriceError == "backoff"

(* Variant of AfterCancelError: the cancel step has no handler of its own *)
AfterCancelErrorAborts == "backoff"

(* Variant of AfterCancelError: a failed query is issued again at once *)
AfterCancelErrorRetries == "open_orders"

(* main.py:318-319: the cancel step's own handler; step 4 follows *)
AfterCancelError == "positions"

(* main.py:357-358: the position step's own handler; step 5 follows *)
AfterFlattenError == "place_buy"

(* main.py:362-385 sit directly in the loop's try: an exception of either  *)
(* placement lands in the handler of line 392                              *)
AfterPlaceError == "backoff"

(* Variant of AfterBackoff: the handler of line 392 leaves the loop *)
AfterBackoffLeaves == "exited"

(* main.py:254: "while True" after the sleep of line 394 *)
AfterBackoff == "price"

(* main.py:257-290 *)
FetchPrice ==
    /\ pc = "price"
    /\ calls' = {"price"}
    /\ \/ \E m \in MarkPricesOf(current_symbol) :
            /\ mark_price' = m
            /\ bid_price_str' \in BidPriceStr(m)
            /\ ask_price_str' \in AskPriceStr(m)
            /\ fails' = {}
            /\ pc' = "open_orders"
       \/ /\ fails' = {"price"}
          /\ pc' = AfterPriceError
          /\ UNCHANGED <<mark_price, bid_price_str, ask_price_str>>
    /\ UNCHANGED <<signing, context, current_symbol, current_order_size, ids_to_cancel,
                   oid_idx, positions, pos_idx, book, position, lastOrder, pass,
                   sweeps, retry, interrupted, exit>>

(* Variant of IdsToCancel: the list is extended, not assigned *)
IdsToCancelExtended(result_ids) ==
    SortedSeq(result_ids \cup SeqToSet(ids_to_cancel))

(* Variant of IdsToCancel: only the first order of the list is taken *)
IdsToCancelFirst(result_ids) ==
    IF result_ids = {} THEN <<>> ELSE <<SortedSeq(result_ids)[1]>>

(* main.py:301 and 411: [o['id'] for o in result_list] *)
IdsToCancel(result_ids) == SortedSeq(result_ids)

(* Variant of HasOpenOrders: the cancel calls are not guarded *)
HasOpenOrdersUnguarded(ids) == TRUE

(* main.py:298, 303 and 410: "if total_open > 0", "if ids_to_cancel",      *)
(* "if result_list"                                                        *)
HasOpenOrders(ids) == ids # {}

(* main.py:293-303 *)
QueryOpenOrders ==
    /\ pc = "open_orders"
    /\ calls' = calls \cup {"open_orders"}
    /\ \/ /\ fails' = fails \cup {"open_orders"}
          /\ pc' = AfterCancelError
          /\ pass' = [NoPass EXCEPT !.kind = "tick", !.done = TRUE]
          /\ UNCHANGED ids_to_cancel
       \/ /\ fails' = fails
          /\ IF ~HasOpenOrders(BookIds)
             THEN /\ pc' = "positions"
                  /\ pass' = [NoPass EXCEPT !.kind = "tick", !.done = TRUE]
                  /\ UNCHANGED ids_to_cancel
             ELSE /\ pc' = "batch_cancel"
                  /\ ids_to_cancel' = IdsToCancel(BookIds)
                  /\ pass' = [NoPass EXCEPT !.kind = "tick", !.queried = BookIds]
    /\ UNCHANGED <<signing, context, current_symbol, current_order_size, mark_price,
                   bid_price_str, ask_price_str, oid_idx, positions, pos_idx,
                   book, position, lastOrder, sweeps, retry,
                   interrupted, exit>>

(* main.py:305-309 *)
BatchCancel ==
    /\ pc = "batch_cancel"
    /\ calls' = calls \cup {"cancel_batch"}
    /\ \/ /\ book' = BookWithout(SeqToSet(ids_to_cancel))
          /\ pass' = [pass EXCEPT !.batch = "ok", !.done = TRUE,
                                  !.logged = Len(ids_to_cancel)]
          /\ pc' = "positions"
          /\ ids_to_cancel' = <<>>
          /\ UNCHANGED <<fails, oid_idx>>
       \/ /\ fails' = fails \cup {"cancel_batch"}
          /\ IF ids_to_cancel = <<>>
             THEN \* "for oid in ids_to_cancel" over no ids
                  /\ pass' = [pass EXCEPT !.batch = "fail", !.done = TRUE]
                  /\ oid_idx' = 0
                  /\ pc' = "positions"
             ELSE /\ pass' = [pass EXCEPT !.batch = "fail"]
                  /\ oid_idx' = 1
                  /\ pc' = "single_cancel"
          /\ UNCHANGED <<book, ids_to_cancel>>
    /\ UNCHANGED <<signing, context, current_symbol, current_order_size, mark_price,
                   bid_price_str, ask_price_str, positions,
                   pos_idx, position, lastOrder, sweeps, retry,
                   interrupted, exit>>

(* main.py:311-316: one round of the fallback loop *)
SingleCancel ==
    /\ pc = "single_cancel"
    /\ calls' = calls \cup {"cancel_one"}
    /\ LET oid == ids_to_cancel[oid_idx] IN
         \/ /\ book' = BookWithout({oid})
            /\ pass' = [pass EXCEPT !.tried = @ \cup {oid}, !.ok = @ \cup {oid},
                                    !.logged = @ + 1,
                                    !.done = (oid_idx = Len(ids_to_cancel))]
            /\ fails' = fails
         \/ /\ fails' = fails \cup {"cancel_one"}
            /\ pass' = [pass EXCEPT !.tried = @ \cup {oid},
                                    !.done = (oid_idx = Len(ids_to_cancel))]
            /\ UNCHANGED book
    /\ IF oid_idx = Len(ids_to_cancel)
       THEN /\ pc' = "positions"
            /\ oid_idx' = 0
            /\ ids_to_cancel' = <<>>
       ELSE /\ pc' = "single_cancel"
            /\ oid_idx' = oid_idx + 1
            /\ UNCHANGED ids_to_cancel
    /\ UNCHANGED <<signing, context, current_symbol, current_order_size, mark_price,
                   bid_price_str, ask_price_str, positions,
                   pos_idx, position, lastOrder, sweeps, retry,
                   interrupted, exit>>

(* main.py:322-326 *)
QueryPositions ==
    /\ pc = "positions"
    /\ calls' = calls \cup {"positions"}
    /\ \/ /\ fails' = fails \cup {"positions"}
          /\ pc' = AfterFlattenError
          /\ UNCHANGED <<positions, pos_idx>>
       \/ \E resp \in PositionsResponses :
            /\ positions' = resp
            /\ pos_idx' = IF resp = <<>> THEN 0 ELSE 1
            /\ fails' = fails
            /\ pc' = IF resp = <<>> THEN "place_buy" ELSE "pos_loop"
    /\ pass' = NoPass
    /\ UNCHANGED <<signing, context, current_symbol, current_order_size, mark_price,
                   bid_price_str, ask_price_str, ids_to_cancel, oid_idx, book,
                   position, lastOrder, sweeps, retry, interrupted, exit>>

(* Variant of NeedsClose without the test of line 330 *)
NeedsCloseAnyQty(pos) == pos.symbol = current_symbol

(* main.py:328-330: the entry is the symbol's and its quantity is not 0 *)
NeedsClose(pos) == pos.symbol = current_symbol /\ pos.qty # 0

(* main.py:335 *)
CloseSide(qty) == IF qty > 0 THEN "sell" ELSE "buy"

(* Variant of CloseLots without abs() *)
CloseLotsSigned(qty) == qty

(* main.py:342: abs(qty) *)
CloseLots(qty) == Abs(qty)

(* main.py:337-347: the arguments of the closing order for entry pos *)
CloseOrder(pos) ==
    [symbol |-> current_symbol, side |-> CloseSide(pos.qty),
     order_type |-> "market", qty |-> "", lots |-> CloseLots(pos.qty),
     price |-> NoPrice, time_in_force |-> "ioc", reduce_only |-> TRUE,
     entry_symbol |-> pos.symbol, entry_qty |-> pos.qty]

(* main.py:327-350: one round of "for pos in positions".  When the loop   *)
(* is left the list is never read again and is dropped.                    *)
PositionEntry ==
    /\ pc = "pos_loop"
    /\ LET pos  == positions[pos_idx]
           last == pos_idx = Len(positions)
           next == IF last THEN "place_buy" ELSE "pos_loop"
           nidx == IF last THEN 0 ELSE pos_idx + 1
           rest == IF last THEN <<>> ELSE positions
       IN
         IF pos.symbol = current_symbol /\ ~pos.parses
         THEN \* float() of line 329 raises: handler of line 357
              /\ fails' = fails \cup {"qty_parse"}
              /\ pc' = AfterFlattenError
              /\ pos_idx' = 0
              /\ positions' = <<>>
              /\ UNCHANGED <<calls, lastOrder, position>>
         ELSE IF NeedsClose(pos)
         THEN /\ calls' = calls \cup {"flatten"}
              /\ lastOrder' = CloseOrder(pos)
              /\ \/ /\ position' \in
                         PositionsAfterClose(lastOrder'.side, lastOrder'.lots)
                    /\ fails' = fails
                 \/ /\ fails' = fails \cup {"flatten"}
                    /\ UNCHANGED position
              /\ pos_idx' = nidx
              /\ positions' = rest
              /\ pc' = next
         ELSE /\ pos_idx' = nidx
              /\ positions' = rest
              /\ pc' = next
              /\ UNCHANGED <<calls, fails, lastOrder, position>>
    /\ UNCHANGED <<signing, context, current_symbol, current_order_size, mark_price,
                   bid_price_str, ask_price_str, ids_to_cancel, oid_idx,
                   book, pass, sweeps, retry, interrupted, exit>>

(* main.py:362-385: the arguments of a quote *)
LimitOrder(side, price) ==
    [symbol |-> current_symbol, side |-> side, order_type |-> "limit",
     qty |-> current_order_size, lots |-> 0, price |-> price,
     time_in_force |-> "gtc", reduce_only |-> FALSE, entry_symbol |-> "",
     entry_qty |-> 0]

(* main.py:361-372 *)
PlaceBuy ==
    /\ pc = "place_buy"
    /\ calls' = calls \cup {"buy"}
    /\ lastOrder' = LimitOrder("buy", bid_price_str)
    /\ \/ /\ FreeIds # {}
          /\ book' = BookWith("buy", bid_price_str, current_order_size)
          /\ fails' = fails
          /\ pc' = "place_sell"
       \/ /\ fails' = fails \cup {"buy"}
          /\ pc' = AfterPlaceError
          /\ UNCHANGED book
    /\ UNCHANGED <<signing, context, current_symbol, current_order_size, mark_price,
                   bid_price_str, ask_price_str, ids_to_cancel, oid_idx,
                   positions, pos_idx, position, pass, sweeps, retry,
                   interrupted, exit>>

(* main.py:374-387 *)
PlaceSell ==
    /\ pc = "place_sell"
    /\ calls' = calls \cup {"sell"}
    /\ lastOrder' = LimitOrder("sell", ask_price_str)
    /\ \/ /\ FreeIds # {}
          /\ book' = BookWith("sell", ask_price_str, current_order_size)
          /\ fails' = fails
          /\ pc' = "sleep"
       \/ /\ fails' = fails \cup {"sell"}
          /\ pc' = AfterPlaceError
          /\ UNCHANGED book
    /\ UNCHANGED <<signing, context, current_symbol, current_order_size, mark_price,
                   bid_price_str, ask_price_str, ids_to_cancel, oid_idx,
                   positions, pos_idx, position, pass, sweeps, retry,
                   interrupted, exit>>

(* The tick is over: its log is closed, and its prices are never read     *)
(* again (lines 258-288 of the next tick assign them before any use).      *)
EndTick ==
    /\ calls' = {}
    /\ fails' = {}
    /\ lastOrder' = NoOrder
    /\ mark_price' = 0
    /\ bid_price_str' = NoPrice
    /\ ask_price_str' = NoPrice

(* main.py:390 and back to line 254 *)
Sleep ==
    /\ pc = "sleep"
    /\ pc' = "price"
    /\ retry' = FALSE
    /\ EndTick
    /\ UNCHANGED <<signing, context, current_symbol, current_order_size, ids_to_cancel,
                   oid_idx, positions, pos_idx, book, position, pass, sweeps,
                   interrupted, exit>>

(* main.py:392-394 and back to line 254 *)
Backoff ==
    /\ pc = "backoff"
    /\ pc' = AfterBackoff
    /\ retry' = TRUE
    /\ EndTick
    /\ UNCHANGED <<signing, context, current_symbol, current_order_size, ids_to_cancel,
                   oid_idx, positions, pos_idx, book, position, pass, sweeps,
                   interrupted, exit>>

----------------------------------------------------------------------------
(* STOPPING: main.py:396-428 *)

(* main.py:396-408: an exception left the loop; the handler logs, then the *)
(* finally block starts the sweep when "context and client and token".     *)
(* The loop's own variables are never read again and are dropped.          *)
StartSweep(cause) ==
    /\ IF context # NoContext
       THEN /\ pc' = "sd_query"
            /\ sweeps' = sweeps + 1
            /\ pass' = [NoPass EXCEPT !.kind = "shutdown"]
            /\ exit' = [code |-> -1, cause |-> cause]
       ELSE /\ Exit(0, cause)
            /\ UNCHANGED <<sweeps, pass>>
    /\ calls' = {}
    /\ fails' = {}
    /\ lastOrder' = NoOrder
    /\ mark_price' = 0
    /\ bid_price_str' = NoPrice
    /\ ask_price_str' = NoPrice
    /\ positions' = <<>>
    /\ pos_idx' = 0
    /\ oid_idx' = 0
    /\ retry' = FALSE

(* The end of the finally block: run_trading_bot returns, and so does the  *)
(* script (main.py:430-433)                                                *)
EndRun == Exit(0, exit.cause)

(* main.py:393-394: the handler of a failed tick itself raises an          *)
(* Exception; the handler of line 398 takes it                             *)
HandlerRaises ==
    /\ pc = "backoff"
    /\ StartSweep("fatal")
    /\ UNCHANGED <<signing, context, current_symbol, current_order_size, ids_to_cancel,
                   book, position, interrupted>>

(* main.py:406-412 and 425-428 *)
ShutdownQuery ==
    /\ pc = "sd_query"
    /\ calls' = calls \cup {"open_orders"}
    /\ \/ /\ fails' = fails \cup {"open_orders"}
          /\ pass' = [pass EXCEPT !.done = TRUE]
          /\ EndRun
          /\ UNCHANGED ids_to_cancel
       \/ /\ fails' = fails
          /\ IF ~HasOpenOrders(BookIds)
             THEN /\ pass' = [pass EXCEPT !.done = TRUE]
                  /\ EndRun
                  /\ UNCHANGED ids_to_cancel
             ELSE /\ pc' = "sd_batch"
                  /\ ids_to_cancel' = IdsToCancel(BookIds)
                  /\ pass' = [pass EXCEPT !.queried = BookIds]
                  /\ exit' = exit
    /\ UNCHANGED <<signing, context, current_symbol, current_order_size, mark_price,
                   bid_price_str, ask_price_str, oid_idx, positions, pos_idx,
                   book, position, lastOrder, sweeps, retry,
                   interrupted>>

(* main.py:413-418 *)
ShutdownBatch ==
    /\ pc = "sd_batch"
    /\ calls' = calls \cup {"cancel_batch"}
    /\ \/ /\ book' = BookWithout(SeqToSet(ids_to_cancel))
          /\ pass' = [pass EXCEPT !.batch = "ok", !.done = TRUE,
                                  !.logged = Len(ids_to_cancel)]
          /\ EndRun
          /\ ids_to_cancel' = <<>>
          /\ UNCHANGED <<fails, oid_idx>>
       \/ /\ fails' = fails \cup {"cancel_batch"}
          /\ IF ids_to_cancel = <<>>
             THEN \* "for oid in ids_to_cancel" over no ids
                  /\ pass' = [pass EXCEPT !.batch = "fail", !.done = TRUE]
                  /\ oid_idx' = 0
                  /\ EndRun
             ELSE /\ pass' = [pass EXCEPT !.batch = "fail"]
                  /\ oid_idx' = 1
                  /\ pc' = "sd_single"
                  /\ exit' = exit
          /\ UNCHANGED <<book, ids_to_cancel>>
    /\ UNCHANGED <<signing, context, current_symbol, current_order_size, mark_price,
                   bid_price_str, ask_price_str, positions,
                   pos_idx, position, lastOrder, sweeps, retry,
                   interrupted>>

(* main.py:419-424: the end of a round of the shutdown fallback loop; the  *)
(* line after the loop logs no count                                       *)
ShutdownSingleNext ==
    IF oid_idx = Len(ids_to_cancel)
    THEN /\ EndRun
         /\ oid_idx' = 0
         /\ ids_to_cancel' = <<>>
    ELSE /\ pc' = "sd_single"
         /\ oid_idx' = oid_idx + 1
         /\ UNCHANGED <<exit, ids_to_cancel>>

(* main.py:419-423: one round of the shutdown fallback loop *)
ShutdownSingle ==
    /\ pc = "sd_single"
    /\ calls' = calls \cup {"cancel_one"}
    /\ LET oid == ids_to_cancel[oid_idx] IN
         \/ /\ book' = BookWithout({oid})
            /\ pass' = [pass EXCEPT !.tried = @ \cup {oid}, !.ok = @ \cup {oid},
                                    !.done = (oid_idx = Len(ids_to_cancel))]
            /\ fails' = fails
         \/ /\ fails' = fails \cup {"cancel_one"}
            /\ pass' = [pass EXCEPT !.tried = @ \cup {oid},
                                    !.done = (oid_idx = Len(ids_to_cancel))]
            /\ UNCHANGED book
    /\ ShutdownSingleNext
    /\ UNCHANGED <<signing, context, current_symbol, current_order_size, mark_price,
                   bid_price_str, ask_price_str, positions,
                   pos_idx, position, lastOrder, sweeps, retry,
                   interrupted>>

(* A gateway call of the sweep that has not returned: the program waits   *)
(* inside query_open_orders (line 408) or cancel_orders (lines 415, 421),  *)
(* which are called with no timeout and under no timer.                    *)
BlockedPcs == {"sd_query_blocked", "sd_batch_blocked", "sd_single_blocked"}

(* The call of the sweep the program is at, or waiting in *)
SweepCall(p) ==
    IF p \in BlockedPcs
    THEN CHOOSE q \in SweepPcs : p = q \o "_blocked"
    ELSE p

(* Variant of InterruptInLoop: the handler of line 392 takes the interrupt *)
(* like any failure of a tick                                              *)
InterruptInLoopSwallowed ==
    /\ pc' = AfterPlaceError
    /\ exit' = exit
    /\ UNCHANGED loopVars

(* main.py:396-397 and 403-408: "except Exception" of lines 318, 357 and   *)
(* 392 lets a KeyboardInterrupt through; the handler of line 396 takes it  *)
(* and the finally block follows                                           *)
InterruptInLoop ==
    /\ StartSweep("interrupt")
    /\ UNCHANGED <<ids_to_cancel, book, position>>

(* KeyboardInterrupt, delivered once, wherever the program is.            *)
(*  - before line 253 nothing catches it: the process dies;               *)
(*  - inside the loop the handler of line 396 takes it, then the finally  *)
(*    block runs;                                                         *)
(*  - inside the finally block (entered through line 398) "except         *)
(*    Exception" of lines 417 and 427 lets it through, while the bare     *)
(*    "except" of line 422 swallows it like a failed cancel.              *)
Interrupt ==
    /\ ~interrupted
    /\ pc # "exited"
    /\ interrupted' = TRUE
    /\ \/ /\ pc \in SetupPcs
          /\ Exit(1, "interrupt")
          /\ UNCHANGED loopVars
       \/ /\ pc \in LoopPcs
          /\ InterruptInLoop
       \/ /\ SweepCall(pc) \in {"sd_query", "sd_batch"}
          /\ Exit(1, exit.cause)
          /\ UNCHANGED loopVars
       \/ /\ SweepCall(pc) = "sd_single"
          /\ calls' = calls \cup {"cancel_one"}
          /\ fails' = fails \cup {"cancel_one"}
          /\ pass' = [pass EXCEPT !.tried = @ \cup {ids_to_cancel[oid_idx]},
                                  !.done = (oid_idx = Len(ids_to_cancel))]
          /\ ShutdownSingleNext
          /\ UNCHANGED <<mark_price, bid_price_str, ask_price_str, positions,
                         pos_idx, book, position, lastOrder, sweeps, retry>>
    /\ UNCHANGED <<signing, context, current_symbol, current_order_size>>

----------------------------------------------------------------------------
(* The steps the program takes by itself *)
Step ==
    \/ ChooseMode
    \/ AuthPrivateKey
    \/ AuthApiToken
    \/ DetermineSymbol
    \/ PromptSize
    \/ FetchPrice
    \/ QueryOpenOrders
    \/ BatchCancel
    \/ SingleCancel
    \/ QueryPositions
    \/ PositionEntry
    \/ PlaceBuy
    \/ PlaceSell
    \/ Sleep
    \/ Backoff
    \/ ShutdownQuery
    \/ ShutdownBatch
    \/ ShutdownSingle

Next ==
    \/ Step
    \/ HandlerRaises
    \/ Interrupt

Spec == Init /\ [][Next]_vars

(* main.py:408, 415, 421: a gateway call of the sweep never returns *)
GatewayHangs ==
    /\ pc \in SweepPcs
    /\ pc' = pc \o "_blocked"
    /\ UNCHANGED <<signing, context, current_symbol, current_order_size, interrupted,
                   exit>>
    /\ UNCHANGED loopVars

(* The program with gateway calls that may never return.  The program      *)
(* takes its next step whenever it has one; while it waits in a call it    *)
(* has none.                                                               *)
BlockingSpec == Init /\ [][Next \/ GatewayHangs]_vars /\ WF_vars(Step)

(* A short position is closed as a long one is, with the sides swapped     *)
(* (line 335): the runs that start long or flat stand for the others.      *)
FairInit == Init /\ position >= 0

(* Every call of the gateway returns or raises, sleeps end, prompts are    *)
(* answered: the program always takes its next step.  Nothing forces an    *)
(* interrupt or an exception in the handler of line 392.                   *)
FairSpec == FairInit /\ [][Next]_vars /\ WF_vars(Step)

TypeOK ==
    /\ pc \in SetupPcs \cup LoopPcs \cup SweepPcs \cup {"exited"}
    /\ position \in Qtys
    /\ BookIds \subseteq OrderIds
    /\ calls \subseteq CallKinds
    /\ fails \subseteq calls \cup {"qty_parse"}
    /\ sweeps \in 0..1

----------------------------------------------------------------------------
(* Properties *)

TickOver == pc \in {"sleep", "backoff"}

CancelStepFailed == fails \cap {"open_orders", "cancel_batch", "cancel_one"} # {}

FlattenStepFailed == fails \cap {"positions", "qty_parse", "flatten"} # {}

(* C1: in a tick that reached step 5, a buy placement that raised does not *)
(* keep the sell placement from being attempted in the same tick (and a    *)
(* failed sell leaves the buy attempted).                                  *)
C1_PlacementsIndependent ==
    TickOver =>
        /\ "buy" \in fails => "sell" \in calls
        /\ "sell" \in fails => "buy" \in calls

(* C2: a run that established its context and its symbol and then ended    *)
(* has performed the shutdown sweep exactly once.                           *)
C2_SweepExactlyOnce ==
    (pc = "exited" /\ context # NoContext /\ current_symbol # "")
        => sweeps = 1

(* C3: when the mark-price fetch of a tick fails, the price fetch is the   *)
(* only gateway call of that tick: no open-orders query, no cancel, no     *)
(* position query, no placement.                                           *)
C3_PriceFailureAbortsTick ==
    "price" \in fails => calls = {"price"} /\ lastOrder = NoOrder

(* C3 witness: a tick ended on a failed price fetch while orders rest *)
C3_Witness ==
    pc = "backoff" /\ fails = {"price"} /\ book # {}

LeavesLoop == pc \in LoopPcs /\ pc' \notin LoopPcs

(* C4: a failed tick never ends the run.  The loop is left only by an      *)
(* interrupt or by an error of the handler itself; and, the program taking *)
(* its steps, a tick that ended in the handler of line 392 is followed by  *)
(* the start of another tick, which fetches the mark price anew, unless an *)
(* interrupt or such an error comes first.                                 *)
C4_FailedTickRetried ==
    /\ [][LeavesLoop => (interrupted' /\ ~interrupted) \/ exit'.cause = "fatal"]_vars
    /\ (pc = "backoff") ~> (pc = "price" \/ interrupted \/ exit.cause = "fatal")
    /\ (pc = "price") ~> ("price" \in calls \/ interrupted)

(* C4 witness: the tick after a failed tick has fetched its mark price *)
C4_Witness ==
    retry /\ pc = "open_orders" /\ "price" \in calls /\ mark_price \in MarkPrices

(* C5: in a tick whose price fetch succeeded, a failure of the cancel step *)
(* does not keep the position query from being issued, and a failure of    *)
(* the position step does not keep the buy placement from being issued.    *)
C5_StepsIsolated ==
    /\ (CancelStepFailed /\ pc \in {"place_buy", "place_sell", "sleep", "backoff"})
           => "positions" \in calls
    /\ (FlattenStepFailed /\ pc \in {"place_sell", "sleep", "backoff"})
           => "buy" \in calls

(* C5 witness: the cancel step and the position step both failed and both  *)
(* quotes were still placed                                                *)
C5_Witness ==
    /\ pc = "sleep"
    /\ CancelStepFailed
    /\ FlattenStepFailed
    /\ {"buy", "sell"} \subseteq calls

(* C6: a cancel-all pass over a non-empty list tries the batch cancel      *)
(* first; exactly when that fails it tries every id on its own, whatever   *)
(* the outcome of the others; and the count of cancelled orders it reports *)
(* is the number of ids whose own cancel succeeded.                        *)
C6_FallbackCount ==
    (pass.done /\ pass.queried # {}) =>
        /\ pass.batch \in {"ok", "fail"}
        /\ pass.batch = "ok" => pass.tried = {}
        /\ pass.batch = "fail" =>
              /\ pass.tried = pass.queried
              /\ pass.logged = Cardinality(pass.ok)

(* C7: an order sent with reduce_only is a market, immediate-or-cancel     *)
(* order for the active symbol, sent in a tick whose position query        *)
(* succeeded, while looking at an entry of the active symbol whose         *)
(* quantity is not 0.                                                      *)
C7_ReduceOnlyOnlyWhenOpen ==
    lastOrder.reduce_only =>
        /\ lastOrder.order_type = "market"
        /\ lastOrder.time_in_force = "ioc"
        /\ lastOrder.symbol = current_symbol
        /\ lastOrder.entry_symbol = current_symbol
        /\ lastOrder.entry_qty # 0
        /\ "positions" \in calls \ fails

(* C7 witness: a reduce-only order was sent for an open position *)
C7_Witness ==
    lastOrder.reduce_only /\ lastOrder.entry_qty # 0 /\ "flatten" \in calls

(* C8: the closing order undoes exactly the quantity read: size abs(qty),  *)
(* sell for a long and buy for a short position; and a tick whose price    *)
(* fetch and position query succeed and which leaves the position open     *)
(* has attempted the closing order.                                        *)
C8_FlattenSizeAndSide ==
    /\ lastOrder.reduce_only =>
          /\ lastOrder.lots > 0
          /\ lastOrder.side \in {"buy", "sell"}
          /\ lastOrder.entry_qty
               + (IF lastOrder.side = "buy" THEN lastOrder.lots ELSE -lastOrder.lots)
               = 0
    /\ ( /\ pc \in {"place_buy", "place_sell", "sleep", "backoff"}
         /\ "positions" \in calls \ fails
         /\ "qty_parse" \notin fails
         /\ position # 0 )
           => "flatten" \in calls

(* C8 witness: in a tick after a failed one a short position was read and *)
(* a buy of its size sent; the position is still open afterwards           *)
C8_Witness ==
    /\ retry
    /\ lastOrder.reduce_only
    /\ lastOrder.entry_qty < 0
    /\ lastOrder.side = "buy"
    /\ position # 0

(* C9: without a context the program is never in the quoting loop or the   *)
(* sweep, and a run that ended on a setup failure has issued no gateway    *)
(* call and left no order.                                                 *)
C9_NoTradingAfterSetupFailure ==
    /\ context = NoContext =>
          /\ pc \notin LoopPcs \cup SweepPcs
          /\ calls = {}
          /\ lastOrder = NoOrder
          /\ sweeps = 0
    /\ exit.cause = "setup" => pc = "exited" /\ context = NoContext

(* C9 witness: the run ended on a setup failure *)
C9_Witness ==
    pc = "exited" /\ exit.cause = "setup" /\ context = NoContext

(* C10: the exit code tells how the run ended: 0 after an interrupt of the *)
(* running loop (with the sweep done), non-zero after a setup failure,     *)
(* non-zero (with the sweep done) after a fatal runtime error.             *)
C10_ExitCodes ==
    pc = "exited" =>
        /\ (exit.cause = "interrupt" /\ current_order_size # "")
              => sweeps = 1 /\ exit.code = 0
        /\ exit.cause = "setup" => exit.code # 0
        /\ exit.cause = "fatal" => sweeps = 1 /\ exit.code # 0

PriceFetched == "price" \in calls \ fails

(* C11: a mark price that is not positive is rejected: in a tick whose     *)
(* price fetch returned such a price no bid or ask string is derived from  *)
(* it and no limit order is placed.                                        *)
C11_NonPositiveMarkRejected ==
    (PriceFetched /\ mark_price <= 0) =>
        /\ bid_price_str = NoPrice
        /\ ask_price_str = NoPrice
        /\ calls \cap {"buy", "sell"} = {}

----------------------------------------------------------------------------
(* Step 2 of the tick on its own (main.py:265-288): the quotes of every    *)
(* mark price of a grid.  The grid, in 1e-4: every price up to             *)
(* MaxTinyMark, every price within BoundarySpan of 100, and the prices     *)
(* 100 + 6.25 * i up to 30000.                                             *)

MaxTinyMark == 10000

BoundarySpan == 700

MaxLargeSteps == 4784

LargeStride == 625 * Pow10(LargeDecimals)

QuoteGrid ==
    LET limit == SmallPriceLimit * PriceScale
    IN  (1..MaxTinyMark)
          \cup ((limit - BoundarySpan)..(limit + BoundarySpan))
          \cup {limit + LargeStride * i : i \in 0..MaxLargeSteps}

QuoteInit ==
    /\ pc = "quote"
    /\ mark_price \in QuoteGrid
    /\ context = EstablishedContext
    /\ signing = NoSigning
    /\ current_symbol = NormalizeSymbol("BTC")
    /\ current_order_size = ORDER_SIZE
    /\ bid_price_str = NoPrice
    /\ ask_price_str = NoPrice
    /\ ids_to_cancel = <<>>
    /\ oid_idx = 0
    /\ positions = <<>>
    /\ pos_idx = 0
    /\ book = {}
    /\ position = 0
    /\ calls = {"price"}
    /\ fails = {}
    /\ lastOrder = NoOrder
    /\ pass = NoPass
    /\ sweeps = 0
    /\ retry = FALSE
    /\ interrupted = FALSE
    /\ exit = NotExited

(* main.py:265-288 *)
Quote ==
    /\ pc = "quote"
    /\ bid_price_str' \in BidPriceStr(mark_price)
    /\ ask_price_str' \in AskPriceStr(mark_price)
    /\ pc' = "quoted"
    /\ UNCHANGED <<signing, context, current_symbol, current_order_size, mark_price,
                   ids_to_cancel, oid_idx, positions, pos_idx, book, position,
                   calls, fails, lastOrder, pass, sweeps, retry, interrupted,
                   exit>>

QuoteSpec == QuoteInit /\ [][Quote]_vars

(* The reference: the exact product, rounded to the nearest value with the *)
(* digits of the branch, an exact half going to the even neighbour.        *)
RefProduct(mark, k) ==
    IF mark < SmallPriceLimit * PriceScale
    THEN Product4(mark, k)
    ELSE Product2(mark, k)

RefDecimals(mark) ==
    IF mark < SmallPriceLimit * PriceScale THEN SmallDecimals ELSE LargeDecimals

RefRound(p) ==
    IF 2 * p.f > p.den \/ (2 * p.f = p.den /\ p.e) THEN p.q + 1
    ELSE IF 2 * p.f = p.den /\ p.q % 2 = 1 THEN p.q + 1
    ELSE p.q

RefPrice(mark, k) ==
    [val |-> RefRound(RefProduct(mark, k)), dec |-> RefDecimals(mark)]

(* C12 as stated: for every mark price of the grid both price strings      *)
(* equal the reference computation rounded to the digits of the branch.    *)
C12_QuotesEqualReference ==
    pc = "quoted" =>
        /\ bid_price_str = RefPrice(mark_price, BpsBase - SPREAD_BPS)
        /\ ask_price_str = RefPrice(mark_price, BpsBase + SPREAD_BPS)

QuoteNearest(str, mark, k) ==
    LET p == RefProduct(mark, k)
    IN  /\ str.dec = RefDecimals(mark)
        /\ ~IsTie(p) => str = RefPrice(mark, k)
        /\ IsTie(p) => str.val \in {p.q, p.q + 1}

(* Away from the half-way products the strings do equal the reference,    *)
(* and at a half-way product each is one of the two nearest values; the    *)
(* digits follow the branch.  Mark 30000 gives "29976.00"/"30024.00" and   *)
(* mark 0.95 gives "0.9492"/"0.9508".                                       *)
QuotesNearestReference ==
    pc = "quoted" =>
        /\ QuoteNearest(bid_price_str, mark_price, BpsBase - SPREAD_BPS)
        /\ QuoteNearest(ask_price_str, mark_price, BpsBase + SPREAD_BPS)
        /\ mark_price = 30000 * PriceScale =>
              /\ bid_price_str = [val |-> 2997600, dec |-> LargeDecimals]
              /\ ask_price_str = [val |-> 3002400, dec |-> LargeDecimals]
        /\ mark_price = 95 * Pow10(LargeDecimals) =>
              /\ bid_price_str = [val |-> 9492, dec |-> SmallDecimals]
              /\ ask_price_str = [val |-> 9508, dec |-> SmallDecimals]

----------------------------------------------------------------------------
(* The calls of a tick are logged in a set that the end of the tick        *)
(* empties: a call is issued at most once in a tick when the program is    *)
(* never about to issue it with the call already logged.                   *)
AtMostOncePerTick ==
    /\ pc = "open_orders" => "open_orders" \notin calls
    /\ pc = "batch_cancel" => "cancel_batch" \notin calls
    /\ pc = "place_buy" => "buy" \notin calls
    /\ pc = "place_sell" => "sell" \notin calls

(* C13 as stated: every tick, failed or not, has made exactly one          *)
(* cancel-all pass when it ends, and at most one placement pass.           *)
C13_OnePassEveryTick ==
    /\ AtMostOncePerTick
    /\ TickOver => "open_orders" \in calls

(* C13 amended: a tick whose price fetch succeeded makes exactly one       *)
(* cancel-all pass (one open-orders query, at most one batch cancel) and a *)
(* tick whose price fetch failed makes none; every tick sends at most one  *)
(* buy and at most one sell limit order.                                   *)
C13_OnePassPerPricedTick ==
    /\ AtMostOncePerTick
    /\ (TickOver /\ PriceFetched) => "open_orders" \in calls
    /\ (TickOver /\ ~PriceFetched) =>
           calls \cap {"open_orders", "cancel_batch", "cancel_one"} = {}

(* C13 witness: a tick after a failed one queried, cancelled in one batch  *)
(* and placed both quotes                                                  *)
C13_Witness ==
    /\ pc = "sleep"
    /\ retry
    /\ {"open_orders", "cancel_batch", "buy", "sell"} \subseteq calls
    /\ fails = {}

SweepCalls == {"open_orders", "cancel_batch", "cancel_one"}

(* C14: once the interrupt has been delivered the program is in the        *)
(* shutdown sweep or has ended; the only gateway calls issued from then on *)
(* are the sweep's open-orders query and cancels, no price fetch, no       *)
(* position query and no placement; and no step taken from then on adds a  *)
(* resting order or moves the position.                                    *)
C14_OnlySweepAfterInterrupt ==
    /\ [](interrupted =>
            /\ pc \in SweepPcs \cup {"exited"}
            /\ calls \subseteq SweepCalls
            /\ lastOrder = NoOrder)
    /\ [][interrupted =>
            /\ calls' \ calls \subseteq SweepCalls
            /\ book' \subseteq book
            /\ position' = position]_vars

(* C14 witness: the loop was interrupted while orders rested and the sweep *)
(* queried and cancelled them                                              *)
C14_Witness ==
    /\ interrupted
    /\ pc = "exited"
    /\ exit.cause = "interrupt"
    /\ sweeps = 1
    /\ SweepCalls \subseteq calls
    /\ pass.ok # {}

(* C15: the shutdown sweep always ends: once the sweep has started the run *)
(* eventually reaches its end, even when a gateway call of the sweep never *)
(* returns.                                                                *)
C15_SweepTerminates ==
    (sweeps = 1) ~> (pc = "exited")

(* C16: a cancel-all pass, of a tick or of the shutdown, whose open-orders *)
(* query returned an empty list issues no batch cancel and no cancel by    *)
(* id, and counts no cancelled order.                                      *)
C16_EmptyListNoCancel ==
    ( /\ pass.kind \in {"tick", "shutdown"}
      /\ "open_orders" \in calls \ fails
      /\ pass.queried = {} ) =>
        /\ pass.done
        /\ pass.batch = "none"
        /\ pass.tried = {}
        /\ pass.logged = 0
        /\ calls \cap {"cancel_batch", "cancel_one"} = {}
        /\ pc \notin {"batch_cancel", "single_cancel", "sd_batch", "sd_single"}

(* C16 witness: the shutdown sweep found no open order and the run ended   *)
(* with no cancel call                                                     *)
C16_Witness ==
    /\ pc = "exited"
    /\ pass.kind = "shutdown"
    /\ pass.done
    /\ calls = {"open_orders"}
    /\ fails = {}
    /\ pass.queried = {}
    /\ book = {}

(* The resting orders without their ids *)
RestingQuotes == {[side |-> o.side, price |-> o.price, qty |-> o.qty] : o \in book}

(* The two quotes of the current tick *)
TickQuotes ==
    {[side |-> "buy", price |-> bid_price_str, qty |-> current_order_size],
     [side |-> "sell", price |-> ask_price_str, qty |-> current_order_size]}

ExactlyTickQuotes == RestingQuotes = TickQuotes /\ Cardinality(book) = 2

(* C17 as stated: after every tick that completed step 5 the resting       *)
(* orders are exactly that tick's buy at its bid and sell at its ask.      *)
C17_OnlyTickQuotesRest ==
    pc = "sleep" => ExactlyTickQuotes

(* The cancel step left nothing uncancelled: its query succeeded and the   *)
(* batch cancel, or else every cancel by id, succeeded.                     *)
CancelStepComplete ==
    /\ "open_orders" \in calls \ fails
    /\ "cancel_one" \notin fails

(* C17 amended: after every tick that completed step 5 and whose cancel    *)
(* step left nothing uncancelled, the resting orders are exactly that      *)
(* tick's buy at its bid and sell at its ask with the configured size;     *)
(* orders of earlier ticks rest no longer.                                 *)
C17_OnlyTickQuotesAfterCancel ==
    (pc = "sleep" /\ CancelStepComplete) => ExactlyTickQuotes

(* C17 witness: a tick cancelled the orders of an earlier tick one by one  *)
(* after the batch cancel failed, and placed its own two                   *)
C17_Witness ==
    /\ pc = "sleep"
    /\ CancelStepComplete
    /\ {"cancel_batch", "cancel_one"} \subseteq calls
    /\ ExactlyTickQuotes

KeyLoadingDone == signing.tried # {}

Encodings == <<"hex", "base64", "base58">>

(* The encodings before position i all failed to give 32 bytes *)
NoKeyBefore(i) == \A j \in 1..(i - 1) : signing[Encodings[j]] # KeyLen

(* C18: token-mode key loading tries hex, then base64, then base58, a      *)
(* later encoding exactly when no earlier one gave 32 bytes; a context is  *)
(* returned exactly when some attempted decoding gave 32 bytes, and the    *)
(* key used is then that of the first encoding in this order that gives    *)
(* 32 bytes; otherwise no context is returned.                             *)
C18_KeyLoadingOrder ==
    KeyLoadingDone =>
        /\ \A i \in 1..Len(Encodings) :
              Encodings[i] \in signing.tried <=> NoKeyBefore(i)
        /\ context # NoContext <=>
              \E e \in signing.tried : signing[e] = KeyLen
        /\ context # NoContext =>
              /\ signing.key.len = KeyLen
              /\ \E i \in 1..Len(Encodings) :
                    /\ signing.key.src = Encodings[i]
                    /\ signing[Encodings[i]] = KeyLen
                    /\ NoKeyBefore(i)
        /\ context = NoContext => pc = "exited"

(* C18 witness: a base58 key: the hex decoder raised, base64 gave 33       *)
(* bytes, base58 gave the 32 bytes the context was built with              *)
C18_Witness ==
    /\ pc = "symbol"
    /\ context # NoContext
    /\ signing.tried = {"hex", "base64", "base58"}
    /\ signing.hex = Raises
    /\ signing.base64 = KeyLen + 1
    /\ signing.key = [len |-> KeyLen, src |-> "base58"]

CancelPcs == {"batch_cancel", "single_cancel", "sd_batch", "sd_single"}

(* C19: whenever a cancel call is about to be issued, in a tick or in the  *)
(* shutdown sweep, the ids it is given are those the open-orders query of  *)
(* the same pass returned, the query having succeeded earlier in that      *)
(* pass; every id cancelled on its own is one of them.  No id of an        *)
(* earlier tick or pass is carried into a cancel call.                     *)
C19_IdsFromSamePass ==
    /\ SweepCall(pc) \in CancelPcs =>
          /\ "open_orders" \in calls \ fails
          /\ pass.kind = (IF pc \in LoopPcs THEN "tick" ELSE "shutdown")
          /\ pass.queried # {}
          /\ SeqToSet(ids_to_cancel) = pass.queried
          /\ pass.queried \subseteq BookIds \cup pass.ok
    /\ SweepCall(pc) \in {"single_cancel", "sd_single"} =>
          /\ oid_idx \in 1..Len(ids_to_cancel)
          /\ ids_to_cancel[oid_idx] \in pass.queried
    /\ pass.tried \subseteq pass.queried

(* C19 witness: the sweep that followed an interrupted tick cancels, one   *)
(* by one, the ids its own query returned                                  *)
C19_Witness ==
    /\ pc = "sd_single"
    /\ exit.cause = "interrupt"
    /\ pass.kind = "shutdown"
    /\ pass.tried # {}
    /\ Cardinality(pass.queried) >= 2
    /\ SeqToSet(ids_to_cancel) = pass.queried

(* A price string as a number of units of 1e-4 *)
PriceUnits(str) == str.val * Pow10(SmallDecimals - str.dec)

(* C20: for every mark price of the grid the price strings sent to the     *)
(* exchange satisfy bid < mark < ask after rounding, so that the buy limit *)
(* is strictly below the sell limit.                                       *)
C20_BidBelowMarkBelowAsk ==
    pc = "quoted" =>
        /\ PriceUnits(bid_price_str) < mark_price
        /\ mark_price < PriceUnits(ask_price_str)
        /\ PriceUnits(bid_price_str) < PriceUnits(ask_price_str)

====
